---- MODULE Spec2Model ----
(***************************************************************************)
(* Model of the AddressSelector component                                  *)
(* (src/src/components/AddressSelector.tsx).                               *)
(*                                                                         *)
(* The component's React state, its three asynchronous handlers (each      *)
(* split at its `await` into the part run by the event and the part run    *)
(* when the api call settles), the synchronous UI events, and the remote   *)
(* address book the api talks to.  A handler's closure over the state of   *)
(* the render it was created in is kept in the call record (`sel`,         *)
(* `body`), so that code running after the await reads the captured value, *)
(* as the JavaScript does.                                                 *)
(***************************************************************************)
EXTENDS Integers, Sequences, FiniteSets, TLC

VARIABLES
    addresses,          \* useState<Address[]>([])
    loading,            \* useState(true)
    showForm,           \* useState(false)
    selectedAddressId,  \* useState<string | null>(null)
    formData,           \* useState<Address>({...''})
    submitting,         \* useState(false)
    mounted,            \* the mount effect has run
    calls,              \* api calls that have been issued and have not settled
    nIssued,            \* number of api calls issued so far
    srv,                \* the address list held by the remote address book
    nextId,             \* number of ids the address book has assigned
    toast,              \* title of the toast shown by the last handler step
    selectedCalls,      \* arguments of onAddressSelected in the last handler step
    createdCalls,       \* number of onAddressCreated calls in the last handler step
    parentAddr,         \* last address the parent received through onAddressSelected
    last                \* the last handler step: event, its inputs, the settled call

state == <<addresses, loading, showForm, selectedAddressId, formData, submitting>>
remote == <<srv, nextId>>
outputs == <<toast, selectedCalls, createdCalls, parentAddr, last>>
vars == <<addresses, loading, showForm, selectedAddressId, formData, submitting,
          mounted, calls, nIssued, srv, nextId,
          toast, selectedCalls, createdCalls, parentAddr, last>>

----------------------------------------------------------------------------
(* Bounds *)

MaxCalls == 3       \* api calls issued in one run (the GET included)

----------------------------------------------------------------------------
(* Values *)

Null == "null"                      \* JavaScript null (no server id equals it)
NoToast == "none"
NoAddress == [_id |-> Null]

FieldValues == {"", "x"}            \* contents of a form input
RequiredFields == {"name", "phone", "houseNumber", "area", "city", "state", "pincode"}
FormFields == RequiredFields \cup {"landmark"}

IdOf(n) == "id" \o ToString(n)      \* the n-th id assigned by the address book

\* the literal useState<Address> starts formData with
InitialFormData ==
    [name |-> "", phone |-> "", houseNumber |-> "", area |-> "",
     city |-> "", state |-> "", pincode |-> "", landmark |-> ""]

\* mutant of ClearedFormData: the reset literal lacks the landmark entry
ClearedFormDataKeepsLandmark ==
    [name |-> "", phone |-> "", houseNumber |-> "", area |-> "",
     city |-> "", state |-> "", pincode |-> "", landmark |-> formData.landmark]

\* the literal handleAddAddress passes to setFormData after a successful create
ClearedFormData ==
    [name |-> "", phone |-> "", houseNumber |-> "", area |-> "",
     city |-> "", state |-> "", pincode |-> "", landmark |-> ""]

\* a persisted address: the posted draft plus the server's id and default flag
Persisted(body, id, isDefault) ==
    [_id |-> id, name |-> body.name, phone |-> body.phone,
     houseNumber |-> body.houseNumber, area |-> body.area, city |-> body.city,
     state |-> body.state, pincode |-> body.pincode, landmark |-> body.landmark,
     isDefault |-> isDefault]

FilledDraft == [f \in FormFields |-> IF f = "landmark" THEN "" ELSE "x"]

\* the address books of at most n addresses, with any default flags
Books(n) ==
    UNION { { [i \in 1..k |-> Persisted(FilledDraft, IdOf(i), flags[i])] :
                flags \in [1..k -> BOOLEAN] } : k \in 0..n }

NewCall(rid, kind, id, sel, body) ==
    [rid |-> rid, kind |-> kind, id |-> id, sel |-> sel, body |-> body,
     status |-> "pending", ok |-> FALSE, isArray |-> FALSE, data |-> <<>>]

\* a handler step: the handler, the address id it was given, and how it went
\* ("declined" / "confirmed" for the confirmation prompt, "resolved" / "thrown"
\* for a settled api call, the selection it replaced for a card click)
Step(op, id, how) == [op |-> op, id |-> id, how |-> how]

----------------------------------------------------------------------------
(* Pure helpers *)

RECURSIVE Without(_, _)
Without(list, id) ==
    IF list = <<>> THEN <<>>
    ELSE IF Head(list)._id = id THEN Without(Tail(list), id)
         ELSE <<Head(list)>> \o Without(Tail(list), id)

Ids(list) == { list[i]._id : i \in 1..Len(list) }

\* mutant of Find: the first element is taken, flagged or not
FindFirstElement(list) == IF list # <<>> THEN list[1] ELSE NoAddress

\* json.data.find((a) => a.isDefault): the first flagged element, or none
Find(list) ==
    IF \E i \in 1..Len(list) : list[i].isDefault
    THEN list[CHOOSE i \in 1..Len(list) :
                /\ list[i].isDefault
                /\ \A j \in 1..(i - 1) : ~list[j].isDefault]
    ELSE NoAddress

\* ok && Array.isArray(json?.data), as each handler tests it
\* mutant of fetchSucceeded: json.ok is not tested
fetchSucceededIgnoresOk(c) == c.isArray

fetchSucceeded(c) == c.ok /\ c.isArray

\* mutant of deleteSucceeded: json.data is not tested to be an array
deleteSucceededIgnoresArray(c) == c.ok

deleteSucceeded(c) == c.ok /\ c.isArray

\* mutant of addSucceeded: json.data is not tested to be an array
addSucceededIgnoresArray(c) == c.ok

\* mutant of addSucceeded: the response's ok flag is not tested
addSucceededIgnoresOk(c) == c.isArray

addSucceeded(c) == c.ok /\ c.isArray

\* mutant of Declined: the answer to the prompt is ignored
DeclinedNever(confirmed) == FALSE

\* !window.confirm(...)
Declined(confirmed) == ~confirmed

\* address._id || ''
IdOrEmpty(address) == IF address._id = Null THEN "" ELSE address._id

\* mutant of RequiredFilled: pincode is not tested
RequiredFilledButPincode(fd) ==
    /\ fd.name # ""
    /\ fd.phone # ""
    /\ fd.houseNumber # ""
    /\ fd.area # ""
    /\ fd.city # ""
    /\ fd.state # ""

\* the negation of the guard of handleAddAddress's early return
RequiredFilled(fd) ==
    /\ fd.name # ""
    /\ fd.phone # ""
    /\ fd.houseNumber # ""
    /\ fd.area # ""
    /\ fd.city # ""
    /\ fd.state # ""
    /\ fd.pincode # ""

----------------------------------------------------------------------------
(* Initial state: the component as constructed, before its mount effect *)

InitOn(books) ==
    /\ addresses = <<>>
    /\ loading = TRUE
    /\ showForm = FALSE
    /\ selectedAddressId = Null
    /\ formData = InitialFormData
    /\ submitting = FALSE
    /\ mounted = FALSE
    /\ calls = {}
    /\ nIssued = 0
    /\ srv \in books
    /\ nextId = Len(srv)
    /\ toast = NoToast
    /\ selectedCalls = <<>>
    /\ createdCalls = 0
    /\ parentAddr = NoAddress
    /\ last = Step("init", "", "")

Init == InitOn(Books(1))

----------------------------------------------------------------------------
(* The remote address book and the api helper *)

\* The address book handles a pending call and the api helper gets a
\* response { ok, json }: a list call reads the list, a create appends the
\* posted draft under a fresh id, a delete removes the id.  A refused call
\* (ok = false) changes nothing.  json.data is the resulting list or is not
\* an array.
AddressBook(c, ok, isArray) ==
    /\ c \in calls
    /\ c.status = "pending"
    /\ LET list == IF ~ok \/ c.kind = "list" THEN srv
                   ELSE IF c.kind = "create"
                        THEN Append(srv, Persisted(c.body, IdOf(nextId + 1), FALSE))
                        ELSE Without(srv, c.id)
       IN /\ srv' = list
          /\ nextId' = IF ok /\ c.kind = "create" THEN nextId + 1 ELSE nextId
          /\ calls' = (calls \ {c}) \cup
                        {[c EXCEPT !.status = "replied", !.ok = ok, !.isArray = isArray,
                                   !.data = IF isArray THEN list ELSE <<>>]}
    /\ UNCHANGED <<state, mounted, nIssued, outputs>>

How(thrown) == IF thrown THEN "thrown" ELSE "resolved"

\* the api promise of call c settles: it rejects (thrown) at any time, or
\* resolves with the response once the address book has replied
Settles(c, kind, thrown) ==
    /\ c \in calls
    /\ c.kind = kind
    /\ thrown \/ c.status = "replied"

----------------------------------------------------------------------------
(* Loader *)

\* useEffect(() => { fetchAddresses() }, []) up to the await
fetchAddresses ==
    /\ ~mounted
    /\ mounted' = TRUE
    /\ loading' = TRUE
    /\ nIssued' = nIssued + 1
    /\ calls' = calls \cup {NewCall(nIssued + 1, "list", "", Null, InitialFormData)}
    /\ toast' = NoToast
    /\ selectedCalls' = <<>>
    /\ createdCalls' = 0
    /\ last' = Step("fetchAddresses", "", "")
    /\ UNCHANGED <<addresses, showForm, selectedAddressId, formData, submitting,
                   remote, parentAddr>>

\* mutant of fetchAddressesResume: the loaded list is stored with the default
\* addresses moved to the front
fetchAddressesResumeDefaultFirst(c, thrown) ==
    /\ Settles(c, "list", thrown)
    /\ LET success == ~thrown /\ fetchSucceeded(c)
           defaultAddr == IF success THEN Find(c.data) ELSE NoAddress
           select == defaultAddr._id # Null
       IN /\ addresses' = IF success
                          THEN SelectSeq(c.data, LAMBDA a : a.isDefault) \o
                               SelectSeq(c.data, LAMBDA a : ~a.isDefault)
                          ELSE addresses
          /\ selectedAddressId' = IF select THEN defaultAddr._id ELSE selectedAddressId
          /\ selectedCalls' = IF select THEN <<defaultAddr>> ELSE <<>>
          /\ parentAddr' = IF select THEN defaultAddr ELSE parentAddr
    /\ loading' = FALSE
    /\ calls' = calls \ {c}
    /\ toast' = NoToast
    /\ createdCalls' = 0
    /\ last' = Step("fetchSettled", "", How(thrown))
    /\ UNCHANGED <<showForm, formData, submitting, mounted, nIssued, remote>>

\* fetchAddresses from the await on
fetchAddressesResume(c, thrown) ==
    /\ Settles(c, "list", thrown)
    /\ LET success == ~thrown /\ fetchSucceeded(c)
           defaultAddr == IF success THEN Find(c.data) ELSE NoAddress
           select == defaultAddr._id # Null
       IN /\ addresses' = IF success THEN c.data ELSE addresses
          /\ selectedAddressId' = IF select THEN defaultAddr._id ELSE selectedAddressId
          /\ selectedCalls' = IF select THEN <<defaultAddr>> ELSE <<>>
          /\ parentAddr' = IF select THEN defaultAddr ELSE parentAddr
    /\ loading' = FALSE
    /\ calls' = calls \ {c}
    /\ toast' = NoToast
    /\ createdCalls' = 0
    /\ last' = Step("fetchSettled", "", How(thrown))
    /\ UNCHANGED <<showForm, formData, submitting, mounted, nIssued, remote>>

----------------------------------------------------------------------------
(* Selector / list renderer (rendered only while loading is false) *)

\* mutant of CardClick: a click on the selected card deselects it
CardClickToggles(i) ==
    /\ ~loading
    /\ i \in 1..Len(addresses)
    /\ selectedAddressId' =
          IF selectedAddressId = IdOrEmpty(addresses[i]) THEN Null
          ELSE IdOrEmpty(addresses[i])
    /\ selectedCalls' = <<addresses[i]>>
    /\ parentAddr' = addresses[i]
    /\ toast' = NoToast
    /\ createdCalls' = 0
    /\ last' = Step("cardClick", addresses[i]._id, selectedAddressId)
    /\ UNCHANGED <<addresses, loading, showForm, formData, submitting,
                   mounted, calls, nIssued, remote>>

\* mutant of CardClick: the selection is stored but onAddressSelected is not
\* called
CardClickSilent(i) ==
    /\ ~loading
    /\ i \in 1..Len(addresses)
    /\ selectedAddressId' = IdOrEmpty(addresses[i])
    /\ selectedCalls' = <<>>
    /\ toast' = NoToast
    /\ createdCalls' = 0
    /\ last' = Step("cardClick", addresses[i]._id, selectedAddressId)
    /\ UNCHANGED <<addresses, loading, showForm, formData, submitting,
                   mounted, calls, nIssued, remote, parentAddr>>

\* Card onClick for the i-th card
CardClick(i) ==
    /\ ~loading
    /\ i \in 1..Len(addresses)
    /\ selectedAddressId' = IdOrEmpty(addresses[i])
    /\ selectedCalls' = <<addresses[i]>>
    /\ parentAddr' = addresses[i]
    /\ toast' = NoToast
    /\ createdCalls' = 0
    /\ last' = Step("cardClick", addresses[i]._id, selectedAddressId)
    /\ UNCHANGED <<addresses, loading, showForm, formData, submitting,
                   mounted, calls, nIssued, remote>>

\* mutant of handleDeleteAddress: the card is removed from addresses at once,
\* before the server answers
handleDeleteAddressOptimistic(id, confirmed) ==
    /\ IF Declined(confirmed)
       THEN UNCHANGED <<calls, nIssued, addresses>>
       ELSE /\ nIssued < MaxCalls
            /\ nIssued' = nIssued + 1
            /\ calls' = calls \cup
                  {NewCall(nIssued + 1, "delete", id, selectedAddressId, InitialFormData)}
            /\ addresses' = Without(addresses, id)
    /\ toast' = NoToast
    /\ selectedCalls' = <<>>
    /\ createdCalls' = 0
    /\ last' = Step("handleDeleteAddress", id, IF confirmed THEN "confirmed" ELSE "declined")
    /\ UNCHANGED <<loading, showForm, selectedAddressId, formData, submitting,
                   mounted, remote, parentAddr>>

\* handleDeleteAddress(id) up to the await, with the answer given to
\* window.confirm; selectedAddressId is captured by the handler's closure
handleDeleteAddress(id, confirmed) ==
    /\ IF Declined(confirmed)
       THEN UNCHANGED <<calls, nIssued>>
       ELSE /\ nIssued < MaxCalls
            /\ nIssued' = nIssued + 1
            /\ calls' = calls \cup
                  {NewCall(nIssued + 1, "delete", id, selectedAddressId, InitialFormData)}
    /\ toast' = NoToast
    /\ selectedCalls' = <<>>
    /\ createdCalls' = 0
    /\ last' = Step("handleDeleteAddress", id, IF confirmed THEN "confirmed" ELSE "declined")
    /\ UNCHANGED <<state, mounted, remote, parentAddr>>

\* mutant of DeleteButtonClick: without e.stopPropagation() the click also
\* reaches the card's onClick
DeleteButtonClickBubbles(i, confirmed) ==
    /\ ~loading
    /\ i \in 1..Len(addresses)
    /\ IF Declined(confirmed)
       THEN UNCHANGED <<calls, nIssued>>
       ELSE /\ nIssued < MaxCalls
            /\ nIssued' = nIssued + 1
            /\ calls' = calls \cup
                  {NewCall(nIssued + 1, "delete", IdOrEmpty(addresses[i]),
                           selectedAddressId, InitialFormData)}
    /\ selectedAddressId' = IdOrEmpty(addresses[i])
    /\ selectedCalls' = <<addresses[i]>>
    /\ parentAddr' = addresses[i]
    /\ toast' = NoToast
    /\ createdCalls' = 0
    /\ last' = Step("handleDeleteAddress", IdOrEmpty(addresses[i]),
                    IF confirmed THEN "confirmed" ELSE "declined")
    /\ UNCHANGED <<addresses, loading, showForm, formData, submitting, mounted, remote>>

\* delete Button onClick of the i-th card: e.stopPropagation() keeps the
\* click from the card's own onClick, then handleDeleteAddress runs
DeleteButtonClick(i, confirmed) ==
    /\ ~loading
    /\ i \in 1..Len(addresses)
    /\ handleDeleteAddress(IdOrEmpty(addresses[i]), confirmed)

\* handleDeleteAddress from the await on
handleDeleteAddressResume(c, thrown) ==
    /\ Settles(c, "delete", thrown)
    /\ LET success == ~thrown /\ deleteSucceeded(c)
       IN /\ addresses' = IF success THEN c.data ELSE addresses
          /\ selectedAddressId' =
                IF success /\ c.sel = c.id THEN Null ELSE selectedAddressId
          /\ toast' = IF success THEN "Address Deleted"
                      ELSE IF thrown THEN "Error" ELSE NoToast
    /\ calls' = calls \ {c}
    /\ selectedCalls' = <<>>
    /\ createdCalls' = 0
    /\ last' = Step("deleteSettled", c.id, How(thrown))
    /\ UNCHANGED <<loading, showForm, formData, submitting, mounted, nIssued,
                   remote, parentAddr>>

----------------------------------------------------------------------------
(* Form manager *)

\* mutant of AddNewAddressClick: the button is rendered beside the skeleton
\* too
AddNewAddressClickWhileLoading ==
    /\ ~showForm
    /\ showForm' = TRUE
    /\ toast' = NoToast
    /\ selectedCalls' = <<>>
    /\ createdCalls' = 0
    /\ last' = Step("addNewAddressClick", "", "")
    /\ UNCHANGED <<addresses, loading, selectedAddressId, formData, submitting,
                   mounted, calls, nIssued, remote, parentAddr>>

\* Add New Address Button onClick (rendered when showForm is false)
AddNewAddressClick ==
    /\ ~loading
    /\ ~showForm
    /\ showForm' = TRUE
    /\ toast' = NoToast
    /\ selectedCalls' = <<>>
    /\ createdCalls' = 0
    /\ last' = Step("addNewAddressClick", "", "")
    /\ UNCHANGED <<addresses, loading, selectedAddressId, formData, submitting,
                   mounted, calls, nIssued, remote, parentAddr>>

\* mutant of CancelClick: Cancel also resets the draft
CancelClickResets ==
    /\ ~loading
    /\ showForm
    /\ showForm' = FALSE
    /\ formData' = InitialFormData
    /\ toast' = NoToast
    /\ selectedCalls' = <<>>
    /\ createdCalls' = 0
    /\ last' = Step("cancelClick", "", "")
    /\ UNCHANGED <<addresses, loading, selectedAddressId, submitting,
                   mounted, calls, nIssued, remote, parentAddr>>

\* Cancel Button onClick (rendered when showForm is true)
CancelClick ==
    /\ ~loading
    /\ showForm
    /\ showForm' = FALSE
    /\ toast' = NoToast
    /\ selectedCalls' = <<>>
    /\ createdCalls' = 0
    /\ last' = Step("cancelClick", "", "")
    /\ UNCHANGED <<addresses, loading, selectedAddressId, formData, submitting,
                   mounted, calls, nIssued, remote, parentAddr>>

\* Input onChange of field f: setFormData({ ...formData, [f]: e.target.value })
InputChange(f, v) ==
    /\ ~loading
    /\ showForm
    /\ formData[f] # v
    /\ formData' = [formData EXCEPT ![f] = v]
    /\ toast' = NoToast
    /\ selectedCalls' = <<>>
    /\ createdCalls' = 0
    /\ last' = Step("inputChange", "", "")
    /\ UNCHANGED <<addresses, loading, showForm, selectedAddressId, submitting,
                   mounted, calls, nIssued, remote, parentAddr>>

\* mutant of handleAddAddress: the Save button is not disabled while
\* submitting
handleAddAddressNotDisabled ==
    /\ ~loading
    /\ showForm
    /\ IF ~RequiredFilled(formData)
       THEN /\ toast' = "Missing Fields"
            /\ UNCHANGED <<submitting, calls, nIssued>>
       ELSE /\ nIssued < MaxCalls
            /\ submitting' = TRUE
            /\ nIssued' = nIssued + 1
            /\ calls' = calls \cup
                  {NewCall(nIssued + 1, "create", "", Null, formData)}
            /\ toast' = NoToast
    /\ selectedCalls' = <<>>
    /\ createdCalls' = 0
    /\ last' = Step("handleAddAddress", "", "")
    /\ UNCHANGED <<addresses, loading, showForm, selectedAddressId, formData,
                   mounted, remote, parentAddr>>

\* Save Button onClick (disabled while submitting): handleAddAddress up to
\* the await
handleAddAddress ==
    /\ ~loading
    /\ showForm
    /\ ~submitting
    /\ IF ~RequiredFilled(formData)
       THEN /\ toast' = "Missing Fields"
            /\ UNCHANGED <<submitting, calls, nIssued>>
       ELSE /\ nIssued < MaxCalls
            /\ submitting' = TRUE
            /\ nIssued' = nIssued + 1
            /\ calls' = calls \cup
                  {NewCall(nIssued + 1, "create", "", Null, formData)}
            /\ toast' = NoToast
    /\ selectedCalls' = <<>>
    /\ createdCalls' = 0
    /\ last' = Step("handleAddAddress", "", "")
    /\ UNCHANGED <<addresses, loading, showForm, selectedAddressId, formData,
                   mounted, remote, parentAddr>>

\* mutant of handleAddAddressResume: setSubmitting(false) is at the end of the
\* try block, not in a finally block
handleAddAddressResumeNoFinally(c, thrown) ==
    /\ Settles(c, "create", thrown)
    /\ LET success == ~thrown /\ addSucceeded(c)
       IN /\ addresses' = IF success THEN c.data ELSE addresses
          /\ showForm' = IF success THEN FALSE ELSE showForm
          /\ formData' = IF success THEN ClearedFormData ELSE formData
          /\ toast' = IF success THEN "Address Added"
                      ELSE IF thrown THEN "Error" ELSE NoToast
          /\ createdCalls' = IF success THEN 1 ELSE 0
    /\ submitting' = IF thrown THEN submitting ELSE FALSE
    /\ calls' = calls \ {c}
    /\ selectedCalls' = <<>>
    /\ last' = Step("addSettled", "", How(thrown))
    /\ UNCHANGED <<loading, selectedAddressId, mounted, nIssued, remote, parentAddr>>

\* handleAddAddress from the await on
handleAddAddressResume(c, thrown) ==
    /\ Settles(c, "create", thrown)
    /\ LET success == ~thrown /\ addSucceeded(c)
       IN /\ addresses' = IF success THEN c.data ELSE addresses
          /\ showForm' = IF success THEN FALSE ELSE showForm
          /\ formData' = IF success THEN ClearedFormData ELSE formData
          /\ toast' = IF success THEN "Address Added"
                      ELSE IF thrown THEN "Error" ELSE NoToast
          /\ createdCalls' = IF success THEN 1 ELSE 0
    /\ submitting' = FALSE
    /\ calls' = calls \ {c}
    /\ selectedCalls' = <<>>
    /\ last' = Step("addSettled", "", How(thrown))
    /\ UNCHANGED <<loading, selectedAddressId, mounted, nIssued, remote, parentAddr>>

----------------------------------------------------------------------------
(* Specifications *)

TabOrder == <<"name", "phone", "houseNumber", "area", "city", "state", "pincode", "landmark">>

\* the user fills the required inputs one after the other, in the order of the form
InTabOrder(f, v) ==
    /\ v # ""
    /\ f \in RequiredFields
    /\ \E k \in 1..Len(TabOrder) :
         /\ TabOrder[k] = f
         /\ \A j \in 1..(k - 1) : formData[TabOrder[j]] # ""

\* no draft is half typed
FormIdle == formData = InitialFormData \/ RequiredFilled(formData)

\* Spec: every handler and every call, from an address book of at most one
\* address.  The user types a draft in the order of the form and finishes a
\* draft they started before they click elsewhere; responses arrive at any
\* time.
Next ==
    \/ fetchAddresses
    \/ \E c \in calls, ok \in BOOLEAN, isArray \in BOOLEAN : AddressBook(c, ok, isArray)
    \/ \E c \in calls, thrown \in BOOLEAN : fetchAddressesResume(c, thrown)
    \/ \E c \in calls, thrown \in BOOLEAN : handleDeleteAddressResume(c, thrown)
    \/ \E c \in calls, thrown \in BOOLEAN : handleAddAddressResume(c, thrown)
    \/ \E f \in FormFields, v \in FieldValues : InTabOrder(f, v) /\ InputChange(f, v)
    \/ \E i \in 1..Len(addresses) : FormIdle /\ CardClick(i)
    \/ \E i \in 1..Len(addresses), confirmed \in BOOLEAN :
            FormIdle /\ DeleteButtonClick(i, confirmed)
    \/ FormIdle /\ AddNewAddressClick
    \/ FormIdle /\ CancelClick
    \/ FormIdle /\ handleAddAddress

Spec == Init /\ [][Next]_vars

\* SpecLive: the handlers that issue and settle calls and the form, as in Spec
\* but without the card clicks, with every create call settling eventually
\* (the api promise resolves or rejects)
CreateSettles == \E c \in calls, thrown \in BOOLEAN : handleAddAddressResume(c, thrown)

NextLive ==
    \/ fetchAddresses
    \/ \E c \in calls, ok \in BOOLEAN, isArray \in BOOLEAN : AddressBook(c, ok, isArray)
    \/ \E c \in calls, thrown \in BOOLEAN : fetchAddressesResume(c, thrown)
    \/ \E c \in calls, thrown \in BOOLEAN : handleDeleteAddressResume(c, thrown)
    \/ \E c \in calls, thrown \in BOOLEAN : handleAddAddressResume(c, thrown)
    \/ \E f \in FormFields, v \in FieldValues : InTabOrder(f, v) /\ InputChange(f, v)
    \/ \E i \in 1..Len(addresses), confirmed \in BOOLEAN :
            FormIdle /\ DeleteButtonClick(i, confirmed)
    \/ FormIdle /\ AddNewAddressClick
    \/ FormIdle /\ CancelClick
    \/ FormIdle /\ handleAddAddress

SpecLive == Init /\ [][NextLive]_vars /\ WF_vars(CreateSettles)

\* SpecForm: the form manager alone, every input edited freely (typed,
\* cleared, in any order), drafts cancelled and reopened, creates submitted.
InitForm == InitOn(Books(1))

NextForm ==
    \/ fetchAddresses
    \/ \E c \in calls, ok \in BOOLEAN, isArray \in BOOLEAN : AddressBook(c, ok, isArray)
    \/ \E c \in calls, thrown \in BOOLEAN : fetchAddressesResume(c, thrown)
    \/ \E c \in calls, thrown \in BOOLEAN : handleAddAddressResume(c, thrown)
    \/ \E f \in FormFields, v \in FieldValues : InputChange(f, v)
    \/ AddNewAddressClick
    \/ CancelClick
    \/ handleAddAddress

SpecForm == InitForm /\ [][NextForm]_vars

\* SpecLoad: the loader and the card clicks, from address books of up to
\* three addresses with any combination of default flags.
InitLoad == InitOn(Books(3))

NextLoad ==
    \/ fetchAddresses
    \/ \E c \in calls, ok \in BOOLEAN, isArray \in BOOLEAN : AddressBook(c, ok, isArray)
    \/ \E c \in calls, thrown \in BOOLEAN : fetchAddressesResume(c, thrown)
    \/ \E i \in 1..Len(addresses) : CardClick(i)

SpecLoad == InitLoad /\ [][NextLoad]_vars

----------------------------------------------------------------------------
(* Properties *)

\* this step is the address book's, not a handler's
ServerStep ==
    \E c \in calls, d \in calls' :
        c.status = "pending" /\ d.rid = c.rid /\ d.status = "replied"

\* this step is a step of the handler op
Handles(op) == last'.op = op /\ ~ServerStep

\* call c of the given kind settles in this step, by a response (not a throw)
Resolves(c, kind) ==
    /\ c.kind = kind
    /\ \A d \in calls' : d.rid # c.rid
    /\ last'.how = "resolved"

\* call c of the given kind settles in this step by a thrown error
Throws(c, kind) ==
    /\ c.kind = kind
    /\ \A d \in calls' : d.rid # c.rid
    /\ last'.how = "thrown"

Defaults(list) == { i \in 1..Len(list) : list[i].isDefault }

\* C1: whenever selectedAddressId is not none, it is the id of an address
\* currently in addresses (no dangling selection).
C1_NoDanglingSelection ==
    selectedAddressId # Null => selectedAddressId \in Ids(addresses)

\* C2: when the successful response of a delete of id X is processed,
\* selectedAddressId becomes none if it equals X at that moment and is left
\* unchanged otherwise.
C2_DeleteClearsCurrentSelection ==
    [][\A c \in calls :
         (Resolves(c, "delete") /\ c.ok /\ c.isArray)
         => selectedAddressId' =
              IF selectedAddressId = c.id THEN Null ELSE selectedAddressId]_vars

\* C3: after a successful initial load of a list L: if exactly one element of
\* L is flagged default, selectedAddressId is its id and onAddressSelected was
\* called exactly once, with that element; if no element is flagged,
\* selectedAddressId is none and onAddressSelected was not called.
C3_DefaultSelectedOnLoad ==
    [][\A c \in calls :
         (Resolves(c, "list") /\ c.ok /\ c.isArray)
         => /\ \A i \in 1..Len(c.data) :
                 Defaults(c.data) = {i}
                 => /\ selectedAddressId' = c.data[i]._id
                    /\ selectedCalls' = <<c.data[i]>>
            /\ Defaults(c.data) = {}
                 => /\ selectedAddressId' = Null
                    /\ selectedCalls' = <<>>]_vars

\* C3 witness: a load has just ended on a list of several addresses whose only
\* default is not the first one, and that one is selected and was reported.
C3_Witness ==
    /\ last.op = "fetchSettled"
    /\ Len(addresses) >= 2
    /\ \E i \in 2..Len(addresses) :
         /\ Defaults(addresses) = {i}
         /\ selectedAddressId = addresses[i]._id
         /\ selectedCalls = <<addresses[i]>>

\* C4: a submission with any of the seven required fields empty issues no
\* request and leaves addresses, selectedAddressId, showForm, formData and
\* submitting unchanged; with the seven filled, the request is issued whether
\* or not landmark is empty.
C4_RejectsIncompleteDraft ==
    [][Handles("handleAddAddress")
       => IF \E f \in {"name", "phone", "houseNumber", "area", "city", "state", "pincode"} :
               formData[f] = ""
          THEN UNCHANGED <<addresses, selectedAddressId, showForm, formData,
                           submitting, calls, nIssued>>
          ELSE \E c \in calls' \ calls : c.kind = "create" /\ c.body = formData]_vars

\* C4 witness: a draft with every field but one required field filled has just
\* been rejected.
C4_Witness ==
    /\ last.op = "handleAddAddress"
    /\ toast = "Missing Fields"
    /\ \E f \in RequiredFields :
         /\ formData[f] = ""
         /\ \A g \in FormFields \ {f} : formData[g] # ""

\* C5: when the ok response of a create carries a list L, then after it is
\* processed addresses is L, showForm is false and every field of formData is
\* the empty string.
C5_CreateSuccessReplaces ==
    [][\A c \in calls :
         (Resolves(c, "create") /\ c.ok /\ c.isArray)
         => /\ addresses' = c.data
            /\ showForm' = FALSE
            /\ \A f \in DOMAIN formData' : formData'[f] = ""]_vars

\* C5 witness: a create has just succeeded on a draft that had a landmark, and
\* the list it brought holds the old address and the new one.
C5_Witness ==
    /\ last.op = "addSettled"
    /\ toast = "Address Added"
    /\ Len(addresses) = 2
    /\ addresses[2].landmark # ""
    /\ ~showForm
    /\ formData.landmark = ""

\* C6: a create that ends with a non-ok response or a thrown error changes
\* none of addresses, formData and showForm; when no handler ran since the
\* submission, formData is the submitted draft and showForm is still true.
C6_CreateFailureKeepsDraft ==
    [][\A c \in calls :
         (Throws(c, "create") \/ (Resolves(c, "create") /\ ~c.ok))
         => /\ UNCHANGED <<addresses, formData, showForm>>
            /\ last.op = "handleAddAddress" => (formData' = c.body /\ showForm')]_vars

\* C6 witness: a create has just been refused and the draft is still shown.
C6_Witness ==
    /\ last.op = "addSettled"
    /\ toast # "Address Added"
    /\ showForm
    /\ \A f \in FormFields : formData[f] # ""

\* C7: every create and every confirmed delete that ends in a thrown error or
\* in a non-ok response shows an error notification.
C7_FailureShowsError ==
    [][\A c \in calls :
         \A kind \in {"create", "delete"} :
            (Throws(c, kind) \/ (Resolves(c, kind) /\ ~c.ok))
            => toast' = "Error"]_vars

\* C8: declining the confirmation prompt issues no request, leaves the whole
\* component state unchanged and calls no parent callback.
C8_DeclineChangesNothing ==
    [][(Handles("handleDeleteAddress") /\ last'.how = "declined")
       => /\ UNCHANGED <<addresses, selectedAddressId, showForm, formData,
                         loading, submitting, calls, nIssued>>
          /\ selectedCalls' = <<>>
          /\ createdCalls' = 0]_vars

\* C8 witness: the delete of the selected address has just been declined.
C8_Witness ==
    /\ last.op = "handleDeleteAddress"
    /\ last.how = "declined"
    /\ selectedAddressId = last.id
    /\ last.id \in Ids(addresses)

\* C9: a click on the card of an address with id X in addresses, whatever the
\* prior selection, sets selectedAddressId to X, calls onAddressSelected
\* exactly once with that address, issues no request and leaves addresses,
\* showForm and formData unchanged.
C9_CardClickSelects ==
    [][Handles("cardClick")
       => /\ selectedAddressId' = last'.id
          /\ \E i \in 1..Len(addresses) :
                /\ addresses[i]._id = last'.id
                /\ selectedCalls' = <<addresses[i]>>
          /\ UNCHANGED <<addresses, showForm, formData, calls, nIssued>>]_vars

\* C9 witness: a card has just been clicked while another address was selected.
C9_Witness ==
    /\ last.op = "cardClick"
    /\ last.how \notin {Null, last.id}
    /\ selectedAddressId = last.id
    /\ parentAddr._id = last.id

\* C10: onAddressSelected is called only by the load-time default selection
\* and by a card click, once per such event; no other handler calls it.
C10_SelectedCallbackSources ==
    /\ selectedCalls # <<>> => last.op \in {"fetchSettled", "cardClick"}
    /\ last.op = "cardClick" => Len(selectedCalls) = 1
    /\ (last.op = "fetchSettled" /\ selectedAddressId # Null) => Len(selectedCalls) = 1
    /\ Len(selectedCalls) <= 1

\* C10 witness: a delete has just cleared the selection the parent was told
\* about, without a call of onAddressSelected.
C10_Witness ==
    /\ last.op = "deleteSettled"
    /\ toast = "Address Deleted"
    /\ selectedAddressId = Null
    /\ parentAddr._id = last.id
    /\ selectedCalls = <<>>


\* C11: onAddressCreated is called exactly once for each create whose response
\* is ok and carries a list, and by no other step: not by a rejected
\* submission, a failed or malformed create response, a load, a delete, a
\* click or a cancel.
C11_CreatedCallbackOncePerSuccess ==
    [][/\ \A c \in calls :
            (Resolves(c, "create") /\ c.ok /\ c.isArray) => createdCalls' = 1
       /\ (createdCalls' # 0 /\ ~ServerStep)
            => \E c \in calls : Resolves(c, "create") /\ c.ok /\ c.isArray]_vars

\* C11 witness: a create has just succeeded and onAddressCreated was called once.
C11_Witness ==
    /\ last.op = "addSettled"
    /\ last.how = "resolved"
    /\ createdCalls = 1
    /\ addresses # <<>>


\* C12: for every list returned by an ok response of the list endpoint,
\* addresses is that list, the same elements in the same order, once the load
\* completes.
C12_LoadStoresList ==
    [][\A c \in calls :
         (Resolves(c, "list") /\ c.ok /\ c.isArray)
         => /\ addresses' = c.data
            /\ ~loading']_vars

\* C12 witness: the load has just completed on a list of three addresses whose
\* default is not the first, and addresses is the address book's list.
C12_Witness ==
    /\ last.op = "fetchSettled"
    /\ last.how = "resolved"
    /\ ~loading
    /\ Len(addresses) = 3
    /\ ~addresses[1].isDefault
    /\ addresses[3].isDefault
    /\ addresses = srv


\* C13: addresses is the list carried by the most recently processed ok,
\* list-bearing response of a list, create or delete call, and is empty when
\* none has been processed: it starts empty, every such response replaces it
\* by its list, and no other step changes it.  With a create and a delete in
\* flight together, the response processed last determines it.
C13_AddressesMirrorLastResponse ==
    /\ addresses = <<>>
    /\ [][/\ \A c \in calls : \A kind \in {"list", "create", "delete"} :
               (Resolves(c, kind) /\ c.ok /\ c.isArray) => addresses' = c.data
          /\ addresses' # addresses
               => \E c \in calls : \E kind \in {"list", "create", "delete"} :
                     Resolves(c, kind) /\ c.ok /\ c.isArray]_vars

\* C13 witness: a create and a delete were in flight together; the create's
\* response was processed first and the delete's, computed before the address
\* book stored the new address, last: addresses lacks the new address.
C13_Witness ==
    /\ last.op = "deleteSettled"
    /\ last.how = "resolved"
    /\ toast = "Address Deleted"
    /\ calls = {}
    /\ formData = InitialFormData
    /\ nextId = 2
    /\ IdOf(2) \in Ids(srv) \ Ids(addresses)


\* C14: submitting is true exactly while a create call is outstanding, whatever
\* the outcome of the call; and, every call settling eventually, submitting
\* always returns to false.
C14_SubmittingWhileCreateOutstanding ==
    /\ [](submitting <=> \E c \in calls : c.kind = "create")
    /\ submitting ~> ~submitting

\* C14 witness: a create has just ended in a thrown error and submitting is
\* false again, the form still open on the draft.
C14_Witness ==
    /\ last.op = "addSettled"
    /\ last.how = "thrown"
    /\ ~submitting
    /\ showForm
    /\ RequiredFilled(formData)


\* C15: an ok response whose list field is missing or not an array is a no-op:
\* for load, create and delete it leaves addresses and selectedAddressId
\* unchanged, and for create it also leaves showForm and formData unchanged
\* and does not call onAddressCreated.
C15_MalformedResponseIsNoOp ==
    [][\A c \in calls : \A kind \in {"list", "create", "delete"} :
         (Resolves(c, kind) /\ c.ok /\ ~c.isArray)
         => /\ UNCHANGED <<addresses, selectedAddressId>>
            /\ kind = "create"
                 => (UNCHANGED <<showForm, formData>> /\ createdCalls' = 0)]_vars

\* C15 witness: the delete of the selected address has just been answered ok
\* without a list, and the address is still listed and selected.
C15_Witness ==
    /\ last.op = "deleteSettled"
    /\ last.how = "resolved"
    /\ toast = NoToast
    /\ selectedAddressId = last.id
    /\ last.id \in Ids(addresses)
    /\ last.id \notin Ids(srv)


\* C16: Cancel sets showForm to false and leaves formData, addresses and
\* selectedAddressId unchanged; Add New Address shows the form again on the
\* same draft; apart from the user's own edits, formData changes only by a
\* successful create, which empties it.
C16_CancelKeepsDraft ==
    [][/\ Handles("cancelClick")
            => (~showForm' /\ UNCHANGED <<formData, addresses, selectedAddressId>>)
       /\ Handles("addNewAddressClick") => (showForm' /\ UNCHANGED formData)
       /\ (formData' # formData /\ ~Handles("inputChange"))
            => /\ \E c \in calls : Resolves(c, "create") /\ c.ok /\ c.isArray
               /\ \A f \in DOMAIN formData' : formData'[f] = ""]_vars

\* C16 witness: the form has just been reopened on a half-filled draft, which
\* only a Cancel can have hidden.
C16_Witness ==
    /\ last.op = "addNewAddressClick"
    /\ showForm
    /\ formData.name # ""
    /\ formData.landmark # ""
    /\ formData.pincode = ""


\* C17: when the initial GET fails (it throws, or its response is not ok),
\* addresses stays empty, selectedAddressId stays none, onAddressSelected is
\* not called and no notification is shown; however the GET settles, loading
\* is false afterwards, and once false it is never true again.
C17_FailedLoadLeavesEmpty ==
    [][/\ \A c \in calls :
            /\ (Throws(c, "list") \/ (Resolves(c, "list") /\ ~c.ok))
                 => /\ addresses = <<>> /\ addresses' = <<>>
                    /\ selectedAddressId = Null /\ selectedAddressId' = Null
                    /\ selectedCalls' = <<>>
                    /\ parentAddr' = parentAddr
                    /\ toast' = NoToast
            /\ (Throws(c, "list") \/ Resolves(c, "list")) => ~loading'
       /\ ~loading => ~loading']_vars

\* C17 witness: the GET has thrown although the address book holds a default
\* address; the skeleton is gone and the widget is empty and silent.
C17_Witness ==
    /\ last.op = "fetchSettled"
    /\ last.how = "thrown"
    /\ Defaults(srv) # {}
    /\ ~loading
    /\ addresses = <<>>
    /\ selectedAddressId = Null
    /\ parentAddr = NoAddress
    /\ toast = NoToast


\* C18: whenever selectedAddressId is not none, it is the id of the address
\* most recently passed to onAddressSelected.
C18_SelectionIsWhatParentWasTold ==
    selectedAddressId # Null => selectedAddressId = parentAddr._id

\* C18 witness: a delete of another address has succeeded under a selection
\* made by a card click, and the selection is still the parent's address.
C18_Witness ==
    /\ last.op = "deleteSettled"
    /\ last.how = "resolved"
    /\ toast = "Address Deleted"
    /\ selectedAddressId # Null
    /\ selectedAddressId # last.id
    /\ selectedAddressId = parentAddr._id
    /\ Defaults(addresses) = {}


\* C19: at most one create request is outstanding at any time, whatever was
\* done to the form since it was issued (cancelled, reopened), and submitting
\* is true as long as it is.
C19_OneCreateAtATime ==
    /\ Cardinality({ c \in calls : c.kind = "create" }) <= 1
    /\ (\E c \in calls : c.kind = "create") => submitting

\* C19 witness: a create is outstanding, and the form, cancelled meanwhile,
\* has been reopened on the complete draft with requests still to spare.
C19_Witness ==
    /\ last.op = "addNewAddressClick"
    /\ showForm
    /\ submitting
    /\ RequiredFilled(formData)
    /\ \E c \in calls : c.kind = "create"
    /\ nIssued < MaxCalls


\* C20: while loading is true no card click, delete, form toggle, edit or
\* create submission happens: only the load itself and the address book act.
\* So when the load settles, nothing has been selected and the parent has been
\* told of nothing: the load-time selection precedes every selection by the
\* user and never replaces one.
C20_NoUserActionWhileLoading ==
    [][/\ loading => (ServerStep \/ last'.op \in {"fetchAddresses", "fetchSettled"})
       /\ Handles("fetchSettled")
            => /\ loading
               /\ selectedAddressId = Null
               /\ parentAddr._id = Null
               /\ addresses = <<>>
       /\ (Handles("cardClick") \/ Handles("handleDeleteAddress"))
            => \A c \in calls' : c.kind # "list"]_vars

\* C20 witness: a card click has replaced the selection the load made by
\* default with another address.
C20_Witness ==
    /\ last.op = "cardClick"
    /\ last.how # Null
    /\ last.how = Find(addresses)._id
    /\ last.id # last.how
    /\ selectedAddressId = last.id
    /\ parentAddr._id = last.id

====
